---- MODULE Spec2Model ----
(***************************************************************************)
(* Whispery backend: the friendship (relationship) handlers of             *)
(* controllers/friendController.ts over the Friendship and User tables.    *)
(* Every handler is one atomic step here (one request served at a time).   *)
(***************************************************************************)
EXTENDS Integers, FiniteSets, Sequences, TLC

\* ---------------------------------------------------------------- bounds
NumUsers == 3
MaxId == 2
MaxDeactivated == 1
MaxPins == 1
MaxCalls == 3
MaxComments == 2

Users == 1..NumUsers
\* an id that resolves to no User row
Ghost == NumUsers + 1
UserIds == Users \cup {Ghost}
Ids == 1..MaxId
ActionInputs == {"accept", "reject", "maybe"}

\* enum FriendRequestStatus
FriendRequestStatus == {"PENDING", "ACCEPTED", "REJECTED", "BLOCKED"}

\* the null of findFirst / findUnique
NoRow == [id |-> 0, senderId |-> 0, receiverId |-> 0, status |-> "NULL"]

\* two requests served at once, and a call that has not begun
Procs == {1, 2}

Idle == [op |-> "", caller |-> 0, arg |-> 0, action |-> "", pc |-> "idle",
         seen |-> NoRow, count |-> 0, code |-> 0]

VARIABLES
    rows,     \* table Friendship: set of [id, senderId, receiverId, status]
    nextId,   \* the SERIAL sequence of Friendship.id
    users,    \* table User: id -> [status, deletedAt]
    last,     \* the handler that ran last, its inputs and its response
    voicePins,      \* table VoicePin: set of [id, userId, visibility, deletedAt]
    notifications,  \* table Notification: sequence of [userId, type]
    alone,    \* <<A, B>> while only B acts after a block by A on B, else <<>>
    calls,    \* the handler calls in flight between their read and their write
    started,  \* how many interleaved calls have begun
    reactions,  \* table Reaction: set of [userId, voicePinId, type]
    comments    \* table Comment: set of [id, userId, voicePinId, parentId, deletedAt]

vars == <<rows, nextId, users, last, voicePins, notifications, alone, calls, started,
          reactions, comments>>

\* what the friendship handlers and deactivateAccount never write
others == <<voicePins, notifications, alone, calls, started, reactions, comments>>

Friendship == [id : Ids, senderId : Users, receiverId : Users, status : FriendRequestStatus]

TypeOK ==
    /\ rows \subseteq Friendship
    /\ nextId \in 1..(MaxId + 1)
    /\ users \in [Users -> [status : {"ACTIVE", "DEACTIVATED"}, deletedAt : BOOLEAN]]
    /\ voicePins \subseteq [id : 1..MaxPins, userId : Users,
                         visibility : {"PRIVATE", "PUBLIC", "FRIENDS"}, deletedAt : BOOLEAN,
                         reactionsCount : Int, commentsCount : Int]
    /\ reactions \subseteq [userId : Users, voicePinId : 1..MaxPins, type : {"LIKE", "LOVE"}]
    /\ comments \subseteq [id : 1..MaxComments, userId : Users, voicePinId : 1..MaxPins,
                         parentId : 0..MaxComments, deletedAt : BOOLEAN]
    /\ notifications \in Seq([userId : Users, type : {"FRIEND_REQUEST", "FRIEND_ACCEPTED"}])
    /\ alone = <<>> \/ alone \in Users \X Users
    /\ started \in 0..MaxCalls
    /\ \A p \in Procs :
         /\ calls[p].pc \in {"idle", "write", "count", "update", "done"}
         /\ calls[p].seen \in Friendship \cup {NoRow}

\* ------------------------------------------------------------- responses
Reply(op, caller, arg, action, code, message, data) ==
    last' = [op |-> op, caller |-> caller, arg |-> arg, action |-> action,
             code |-> code, message |-> message, data |-> data]

\* ---------------------------------------------------------- prisma layer
\* mutant: there is no unique index
UniqueViolation_missing(id, senderId, receiverId) == FALSE

\* mutant: the index covers the pair in both directions
UniqueViolation_unorderedPair(id, senderId, receiverId) ==
    \E x \in rows : x.id # id /\ {x.senderId, x.receiverId} = {senderId, receiverId}

\* unique index Friendship_senderId_receiverId_key, seen by a write of row id
UniqueViolation(id, senderId, receiverId) ==
    \E x \in rows : x.id # id /\ x.senderId = senderId /\ x.receiverId = receiverId

\* foreign keys Friendship_senderId_fkey / Friendship_receiverId_fkey
ForeignKeyViolation(senderId, receiverId) ==
    senderId \notin Users \/ receiverId \notin Users

\* prisma.friendship.findUnique({ where: { id } })
findUnique(id) == {r \in rows : r.id = id}

\* mutant: the lookup forgets deletedAt and status
findActiveUser_anyStatus(id) == {u \in Users : u = id}

\* prisma.user.findUnique({ where: { id, deletedAt: null, status: ACTIVE } })
findActiveUser(id) ==
    {u \in Users : u = id /\ ~users[u].deletedAt /\ users[u].status = "ACTIVE"}

\* prisma.friendship.create({ data: { senderId, receiverId, status } })
\* mutant: the row is written before the constraint fails
prismaCreate_partial(senderId, receiverId, status) ==
    LET new == [id |-> nextId, senderId |-> senderId, receiverId |-> receiverId,
                status |-> status]
    IN  IF ForeignKeyViolation(senderId, receiverId) \/ UniqueViolation(0, senderId, receiverId)
        THEN [ok |-> FALSE, rows |-> rows \cup {new}, data |-> NoRow]
        ELSE [ok |-> TRUE, rows |-> rows \cup {new}, data |-> new]

prismaCreate(senderId, receiverId, status) ==
    LET new == [id |-> nextId, senderId |-> senderId, receiverId |-> receiverId,
                status |-> status]
    IN  IF ForeignKeyViolation(senderId, receiverId) \/ UniqueViolation(0, senderId, receiverId)
        THEN [ok |-> FALSE, rows |-> rows, data |-> NoRow]
        ELSE [ok |-> TRUE, rows |-> rows \cup {new}, data |-> new]

\* mutant: the update writes the status only and keeps the stored direction
prismaUpdate_keepDirection(id, senderId, receiverId, status) ==
    IF findUnique(id) = {}
    THEN [ok |-> FALSE, rows |-> rows, data |-> NoRow]
    ELSE LET cur == CHOOSE r \in findUnique(id) : TRUE
             new == [cur EXCEPT !.status = status]
         IN  [ok |-> TRUE, rows |-> (rows \ {cur}) \cup {new}, data |-> new]

\* prisma.friendship.update({ where: { id }, data: { senderId, receiverId, status } })
prismaUpdate(id, senderId, receiverId, status) ==
    LET new == [id |-> id, senderId |-> senderId, receiverId |-> receiverId,
                status |-> status]
    IN  IF findUnique(id) = {} \/ UniqueViolation(id, senderId, receiverId)
        THEN [ok |-> FALSE, rows |-> rows, data |-> NoRow]
        ELSE [ok |-> TRUE, rows |-> (rows \ findUnique(id)) \cup {new}, data |-> new]

\* prisma.friendship.update({ where: { id }, data: { status } })
prismaUpdateStatus(id, status) ==
    IF findUnique(id) = {}
    THEN [ok |-> FALSE, rows |-> rows, data |-> NoRow]
    ELSE LET cur == CHOOSE r \in findUnique(id) : TRUE
             new == [cur EXCEPT !.status = status]
         IN  [ok |-> TRUE, rows |-> (rows \ {cur}) \cup {new}, data |-> new]

\* prisma.friendship.delete({ where: { id } })
prismaDelete(id) ==
    IF findUnique(id) = {}
    THEN [ok |-> FALSE, rows |-> rows, data |-> NoRow]
    ELSE [ok |-> TRUE, rows |-> rows \ findUnique(id), data |-> NoRow]

\* the write of a handler and its response: res.json(...) or the catch block
Write(op, caller, arg, action, w, message) ==
    /\ rows' = w.rows
    /\ IF w.ok THEN Reply(op, caller, arg, action, 200, message, w.data)
               ELSE Reply(op, caller, arg, action, 400, "error.message", NoRow)

\* an early return: res.status(code).json({ message })
Fail(op, caller, arg, action, code, message) ==
    /\ Reply(op, caller, arg, action, code, message, NoRow)
    /\ UNCHANGED rows

Init ==
    /\ rows = {}
    /\ nextId = 1
    /\ users = [u \in Users |-> [status |-> "ACTIVE", deletedAt |-> FALSE]]
    /\ last = [op |-> "init", caller |-> 0, arg |-> 0, action |-> "", code |-> 0,
               message |-> "", data |-> NoRow]
    /\ voicePins = {}
    /\ notifications = <<>>
    /\ alone = <<>>
    /\ calls = [p \in Procs |-> Idle]
    /\ started = 0
    /\ reactions = {}
    /\ comments = {}

\* ---------------------------------------------------------------- request
\* mutant: the lookup forgets the reversed direction
requestExisting_oneDirection(senderId, receiverId) ==
    {r \in rows : r.senderId = senderId /\ r.receiverId = receiverId}

\* where: { OR: [{ senderId, receiverId }, { senderId: receiverId, receiverId: senderId }] }
requestExisting(senderId, receiverId) ==
    {r \in rows : \/ (r.senderId = senderId /\ r.receiverId = receiverId)
                  \/ (r.senderId = receiverId /\ r.receiverId = senderId)}

\* mutant: the self check is missing
requestSelf_missing(senderId, receiverId) == FALSE

\* if (senderId === Number(receiverId))
requestSelf(senderId, receiverId) == senderId = receiverId

\* mutant: the BLOCKED check is missing, a blocked pair falls through to the re-send
requestRefusal_noBlocked(status) ==
    CASE status = "PENDING"  -> "Request already pending"
      [] status = "ACCEPTED" -> "Already friends"
      [] OTHER               -> ""

\* mutant: one message for every refusal
requestRefusal_sameMessage(status) ==
    CASE status \in {"PENDING", "ACCEPTED", "BLOCKED"} -> "Bad request"
      [] OTHER -> ""

\* the three status checks on an existing row; "" lets the request through
requestRefusal(status) ==
    CASE status = "PENDING"  -> "Request already pending"
      [] status = "ACCEPTED" -> "Already friends"
      [] status = "BLOCKED"  -> "Cannot send request"
      [] OTHER               -> ""

request(senderId, receiverId) ==
    /\ UNCHANGED users
    /\ IF requestSelf(senderId, receiverId)
       THEN Fail("request", senderId, receiverId, "", 400, "Cannot friend yourself")
            /\ UNCHANGED nextId
       ELSE IF findActiveUser(receiverId) = {}
       THEN Fail("request", senderId, receiverId, "", 404, "User not found")
            /\ UNCHANGED nextId
       ELSE IF requestExisting(senderId, receiverId) # {}
       THEN \E existing \in requestExisting(senderId, receiverId) :
              /\ UNCHANGED nextId
              /\ IF requestRefusal(existing.status) # ""
                 THEN Fail("request", senderId, receiverId, "", 400,
                           requestRefusal(existing.status))
                 ELSE Write("request", senderId, receiverId, "",
                            prismaUpdate(existing.id, senderId, receiverId, "PENDING"), "")
       ELSE /\ nextId <= MaxId
            /\ nextId' = nextId + 1
            /\ Write("request", senderId, receiverId, "",
                     prismaCreate(senderId, receiverId, "PENDING"), "")

\* ---------------------------------------------------------------- respond
\* mutant: the two statuses are exchanged
respondStatus_exchanged(action) ==
    IF action = "accept" THEN "REJECTED"
    ELSE IF action = "reject" THEN "ACCEPTED"
    ELSE "NULL"

\* action === 'accept' ? ACCEPTED : action === 'reject' ? REJECTED : null
respondStatus(action) ==
    IF action = "accept" THEN "ACCEPTED"
    ELSE IF action = "reject" THEN "REJECTED"
    ELSE "NULL"

\* mutant: either party of the row may respond
respondAuthorized_eitherParty(friendRequest, receiverId) ==
    friendRequest.receiverId = receiverId \/ friendRequest.senderId = receiverId

\* friendRequest.receiverId !== receiverId is the 403
respondAuthorized(friendRequest, receiverId) == friendRequest.receiverId = receiverId

respond(receiverId, id, action) ==
    /\ UNCHANGED <<users, nextId>>
    /\ IF findUnique(id) = {}
       THEN Fail("respond", receiverId, id, action, 404, "Request not found")
       ELSE \E friendRequest \in findUnique(id) :
              IF ~respondAuthorized(friendRequest, receiverId)
              THEN Fail("respond", receiverId, id, action, 403, "Not authorized to respond")
              ELSE IF friendRequest.status # "PENDING"
              THEN Fail("respond", receiverId, id, action, 400, "Request already handled")
              ELSE IF respondStatus(action) = "NULL"
              THEN Fail("respond", receiverId, id, action, 400,
                        "Invalid action. Use \"accept\" or \"reject\"")
              ELSE Write("respond", receiverId, id, action,
                         prismaUpdateStatus(id, respondStatus(action)), "")

\* ----------------------------------------------------------------- cancel
\* friendRequest.senderId !== senderId is the 403
cancelAuthorized(friendRequest, senderId) == friendRequest.senderId = senderId

\* mutant: the status check is missing
cancelPending_missing(friendRequest) == TRUE

\* friendRequest.status !== PENDING is the 400
cancelPending(friendRequest) == friendRequest.status = "PENDING"

cancel(senderId, id) ==
    /\ UNCHANGED <<users, nextId>>
    /\ IF findUnique(id) = {}
       THEN Fail("cancel", senderId, id, "", 404, "Request not found")
       ELSE \E friendRequest \in findUnique(id) :
              IF ~cancelAuthorized(friendRequest, senderId)
              THEN Fail("cancel", senderId, id, "", 403, "Not authorized to cancel")
              ELSE IF ~cancelPending(friendRequest)
              THEN Fail("cancel", senderId, id, "", 400,
                        "Only pending requests can be cancelled")
              ELSE Write("cancel", senderId, id, "", prismaDelete(id),
                         "Request cancelled successfully")

\* ----------------------------------------------------------------- remove
\* mutant: the status filter is missing
removeExisting_anyStatus(userId, otherUserId) ==
    {r \in rows : \/ (r.senderId = userId /\ r.receiverId = otherUserId)
                  \/ (r.senderId = otherUserId /\ r.receiverId = userId)}

\* where: { status: ACCEPTED, OR: [{ userId, otherUserId }, { otherUserId, userId }] }
removeExisting(userId, otherUserId) ==
    {r \in rows : /\ r.status = "ACCEPTED"
                  /\ \/ (r.senderId = userId /\ r.receiverId = otherUserId)
                     \/ (r.senderId = otherUserId /\ r.receiverId = userId)}

remove(userId, otherUserId) ==
    /\ UNCHANGED <<users, nextId>>
    /\ IF removeExisting(userId, otherUserId) = {}
       THEN Fail("remove", userId, otherUserId, "", 404, "Friendship not found")
       ELSE \E existing \in removeExisting(userId, otherUserId) :
              Write("remove", userId, otherUserId, "", prismaDelete(existing.id),
                    "Friend removed successfully")

\* ------------------------------------------------------------------ block
\* mutant: the lookup forgets the reversed direction
blockExisting_oneDirection(blockerId, userId) ==
    {r \in rows : r.senderId = blockerId /\ r.receiverId = userId}

\* where: { OR: [{ blockerId, userId }, { userId, blockerId }] }
blockExisting(blockerId, userId) ==
    {r \in rows : \/ (r.senderId = blockerId /\ r.receiverId = userId)
                  \/ (r.senderId = userId /\ r.receiverId = blockerId)}

\* if (blockerId === Number(userId))
blockSelf(blockerId, userId) == blockerId = userId

block(blockerId, userId) ==
    /\ UNCHANGED users
    /\ IF blockSelf(blockerId, userId)
       THEN Fail("block", blockerId, userId, "", 400, "Cannot block yourself")
            /\ UNCHANGED nextId
       ELSE IF blockExisting(blockerId, userId) # {}
       THEN \E existing \in blockExisting(blockerId, userId) :
              /\ UNCHANGED nextId
              /\ Write("block", blockerId, userId, "",
                       prismaUpdate(existing.id, blockerId, userId, "BLOCKED"),
                       "User blocked successfully")
       ELSE /\ nextId <= MaxId
            /\ nextId' = nextId + 1
            /\ Write("block", blockerId, userId, "",
                     prismaCreate(blockerId, userId, "BLOCKED"),
                     "User blocked successfully")

\* ---------------------------------------------------------------- unblock
\* mutant: the lookup takes the block in either direction
unblockExisting_eitherDirection(blockerId, userId) ==
    {r \in rows : /\ r.status = "BLOCKED"
                  /\ \/ (r.senderId = blockerId /\ r.receiverId = userId)
                     \/ (r.senderId = userId /\ r.receiverId = blockerId)}

\* where: { senderId: blockerId, receiverId: userId, status: BLOCKED }
unblockExisting(blockerId, userId) ==
    {r \in rows : r.senderId = blockerId /\ r.receiverId = userId /\ r.status = "BLOCKED"}

unblock(blockerId, userId) ==
    /\ UNCHANGED <<users, nextId>>
    /\ IF unblockExisting(blockerId, userId) = {}
       THEN Fail("unblock", blockerId, userId, "", 404, "Block relationship not found")
       ELSE \E existing \in unblockExisting(blockerId, userId) :
              Write("unblock", blockerId, userId, "", prismaDelete(existing.id),
                    "User unblocked successfully")

\* ------------------------------------------------------ deactivateAccount
\* prisma.user.update({ where: { id, deletedAt: null }, data: { deletedAt, status } })
Deactivated == {u \in Users : users[u].deletedAt}

deactivateAccount(userId) ==
    /\ UNCHANGED <<rows, nextId>>
    /\ users[userId].deletedAt \/ Cardinality(Deactivated) < MaxDeactivated
    /\ IF users[userId].deletedAt
       THEN /\ UNCHANGED users
            /\ Reply("deactivateAccount", userId, 0, "", 400, "error.message", NoRow)
       ELSE /\ users' = [users EXCEPT ![userId] = [status |-> "DEACTIVATED", deletedAt |-> TRUE]]
            /\ Reply("deactivateAccount", userId, 0, "", 204, "", NoRow)

\* ------------------------------------------------------------ the queries
\* mutant: the lookup sees only the rows the viewer sent
getStatusFriendship_ownSide(currentUserId, otherUserId) ==
    {r \in rows : r.senderId = currentUserId /\ r.receiverId = otherUserId}

\* getStatus: the payloads { status, friendshipId } the handler can answer
\* (findFirst has no orderBy: any matching row may be the one returned)
getStatusFriendship(currentUserId, otherUserId) ==
    {r \in rows : \/ (r.senderId = currentUserId /\ r.receiverId = otherUserId)
                  \/ (r.senderId = otherUserId /\ r.receiverId = currentUserId)}

\* mutant: the PENDING branch compares with the receiver
getStatusLabel_swapped(friendship, currentUserId) ==
    CASE friendship.status = "ACCEPTED" -> "friends"
      [] friendship.status = "PENDING" ->
            IF friendship.receiverId = currentUserId THEN "pending_sent" ELSE "pending_received"
      [] friendship.status = "BLOCKED" ->
            IF friendship.senderId = currentUserId THEN "blocked_by_you" ELSE "blocked"
      [] friendship.status = "REJECTED" -> "rejected"
      [] OTHER -> "none"

getStatusLabel(friendship, currentUserId) ==
    CASE friendship.status = "ACCEPTED" -> "friends"
      [] friendship.status = "PENDING" ->
            IF friendship.senderId = currentUserId THEN "pending_sent" ELSE "pending_received"
      [] friendship.status = "BLOCKED" ->
            IF friendship.senderId = currentUserId THEN "blocked_by_you" ELSE "blocked"
      [] friendship.status = "REJECTED" -> "rejected"
      [] OTHER -> "none"

getStatus(currentUserId, otherUserId) ==
    IF currentUserId = otherUserId
    THEN {[status |-> "self", friendshipId |-> 0]}
    ELSE IF getStatusFriendship(currentUserId, otherUserId) = {}
    THEN {[status |-> "none", friendshipId |-> 0]}
    ELSE {[status |-> getStatusLabel(f, currentUserId), friendshipId |-> f.id] :
            f \in getStatusFriendship(currentUserId, otherUserId)}

\* list: relations.map(r => r.senderId === userId ? r.receiver : r.sender)
listRelations(userId) ==
    {r \in rows : r.status = "ACCEPTED" /\ (r.senderId = userId \/ r.receiverId = userId)}

\* mutant: the map keeps the viewer's own side of the row
list_ownSide(userId) ==
    {IF r.senderId = userId THEN r.senderId ELSE r.receiverId : r \in listRelations(userId)}

list(userId) ==
    {IF r.senderId = userId THEN r.receiverId ELSE r.senderId : r \in listRelations(userId)}

\* pending, received: where: { receiverId: userId, status: PENDING }
pendingReceived(userId) ==
    {r \in rows : r.receiverId = userId /\ r.status = "PENDING"}

\* mutant: the sent list forgets the status filter
pendingSent_anyStatus(userId) == {r \in rows : r.senderId = userId}

\* pending, sent: where: { senderId: userId, status: PENDING }
pendingSent(userId) ==
    {r \in rows : r.senderId = userId /\ r.status = "PENDING"}

\* mutant: the list takes the blocks of both directions
getBlockedUsers_bothSides(userId) ==
    {IF b.senderId = userId THEN b.receiverId ELSE b.senderId :
       b \in {r \in rows : /\ r.status = "BLOCKED"
                           /\ (r.senderId = userId \/ r.receiverId = userId)}}

\* findMany({ where: { senderId: userId, status: BLOCKED } }).map(b => b.receiver)
getBlockedUsers(userId) ==
    {b.receiverId : b \in {r \in rows : r.senderId = userId /\ r.status = "BLOCKED"}}

\* ------------------------------------------------------------------- spec
\* passport's verify: prisma.user.findUnique({ where: { id: payload.id } }),
\* with no condition on deletedAt or status
verify(id) == {u \in Users : u = id}

\* authenticate lets the request through when verify found a user
authenticate(id) == verify(id) # {}

\* a token whose user is not found: 401 and the handler is not entered
unauthorized(id) ==
    /\ ~authenticate(id)
    /\ Reply("authenticate", id, 0, "", 401, "Unauthorized", NoRow)
    /\ UNCHANGED <<rows, nextId, users>>

\* The caller is the user of the token (a token of a user id that is not in
\* the table for Ghost); every route is entered through authenticate.
Next ==
    \/ \E s \in UserIds, r \in UserIds :
         authenticate(s) /\ request(s, r) /\ UNCHANGED others
    \/ \E u \in UserIds, id \in Ids, a \in ActionInputs :
         authenticate(u) /\ respond(u, id, a) /\ UNCHANGED others
    \/ \E u \in UserIds, id \in Ids : authenticate(u) /\ cancel(u, id) /\ UNCHANGED others
    \/ \E u \in UserIds, o \in UserIds : authenticate(u) /\ remove(u, o) /\ UNCHANGED others
    \/ \E u \in UserIds, o \in UserIds : authenticate(u) /\ block(u, o) /\ UNCHANGED others
    \/ \E u \in UserIds, o \in UserIds : authenticate(u) /\ unblock(u, o) /\ UNCHANGED others
    \/ \E u \in UserIds : authenticate(u) /\ deactivateAccount(u) /\ UNCHANGED others
    \/ \E u \in UserIds : unauthorized(u) /\ UNCHANGED others

Spec == Init /\ [][Next]_vars

\* enum Visibility; "" is a body without the field
Visibility == {"PRIVATE", "PUBLIC", "FRIENDS"}

VisibilityInputs == Visibility \cup {""}

VoicePin == [id : 1..MaxPins, userId : Users, visibility : Visibility, deletedAt : BOOLEAN,
             reactionsCount : Int, commentsCount : Int]

\* prisma.voicePin.create({ data: { visibility: visibility || PUBLIC, userId } })
createVoicePin(userId, visibility) ==
    /\ Cardinality(voicePins) < MaxPins
    /\ voicePins' = voicePins \cup
         {[id |-> Cardinality(voicePins) + 1, userId |-> userId,
           visibility |-> IF visibility = "" THEN "PUBLIC" ELSE visibility,
           deletedAt |-> FALSE, reactionsCount |-> 0, commentsCount |-> 0]}
    /\ UNCHANGED <<rows, nextId, users, last, notifications, alone, calls, started,
                   reactions, comments>>

\* update({ where: { id, userId, deletedAt: null }, data: { deletedAt } }):
\* a soft delete; no such pin throws and answers 400 with nothing written
deleteVoicePin(userId, id) ==
    /\ voicePins' = {IF p.id = id /\ p.userId = userId /\ ~p.deletedAt
                     THEN [p EXCEPT !.deletedAt = TRUE] ELSE p : p \in voicePins}
    /\ UNCHANGED <<rows, nextId, users, last, notifications, alone, calls, started,
                   reactions, comments>>

\* where: { visibility: 'PUBLIC', deletedAt: null }
getPublicVoicePin ==
    {p \in voicePins : p.visibility = "PUBLIC" /\ ~p.deletedAt}

\* where: { visibility: 'PUBLIC', userId: parseInt(id), deletedAt: null }
getPublicVoicePinByUser(id) ==
    {p \in voicePins : p.visibility = "PUBLIC" /\ p.userId = id /\ ~p.deletedAt}

\* friendIds: the other side of every ACCEPTED row of the caller
friendIds(userId) ==
    {IF f.senderId = userId THEN f.receiverId ELSE f.senderId :
       f \in {r \in rows : /\ r.status = "ACCEPTED"
                           /\ (r.senderId = userId \/ r.receiverId = userId)}}

getFriendsVisibleVoicePins(userId) ==
    IF friendIds(userId) = {}
    THEN {}
    ELSE {p \in voicePins : /\ p.visibility \in {"PUBLIC", "FRIENDS"}
                            /\ p.userId \in friendIds(userId)
                            /\ ~p.deletedAt}

\* The voice pin routes next to the friend routes that make and break
\* friendships and blocks.
NextVoice ==
    \/ \E u \in Users, v \in VisibilityInputs : createVoicePin(u, v)
    \/ \E u \in Users, id \in 1..MaxPins : deleteVoicePin(u, id)
    \/ \E s \in Users, r \in UserIds : request(s, r) /\ UNCHANGED others
    \/ \E u \in Users, id \in Ids, a \in ActionInputs : respond(u, id, a) /\ UNCHANGED others
    \/ \E u \in Users, o \in UserIds : block(u, o) /\ UNCHANGED others
    \/ \E u \in Users, o \in UserIds : unblock(u, o) /\ UNCHANGED others

SpecVoice == Init /\ [][NextVoice]_vars

\* prisma.notification.create({ data: { userId, type } }): the table after the
\* helper ran. No controller calls it.
createNotification(userId, type) ==
    Append(notifications, [userId |-> userId, type |-> type])

\* The handlers as one user calls them (router.use(authenticate): the caller is
\* req.user.id, the target comes from the body or the path).
callerActs(B) ==
    \/ \E r \in UserIds : request(B, r)
    \/ \E id \in Ids, a \in ActionInputs : respond(B, id, a)
    \/ \E id \in Ids : cancel(B, id)
    \/ \E o \in UserIds : remove(B, o)
    \/ \E o \in UserIds : block(B, o)
    \/ \E o \in UserIds : unblock(B, o)

\* Any user calls any handler until some successful block by A on B is singled
\* out (alone = <<A, B>>); from then on B is the only caller.
NextAlone ==
    \/ /\ alone = <<>>
       /\ \E u \in Users : callerActs(u)
       /\ alone' \in {<<>>} \cup
                     {<<last'.caller, last'.arg>> : x \in
                        {y \in {1} : last'.op = "block" /\ last'.code = 200}}
       /\ UNCHANGED <<voicePins, notifications, calls, started, reactions, comments>>
    \/ /\ alone # <<>>
       /\ callerActs(alone[2])
       /\ UNCHANGED others

SpecAlone == Init /\ [][NextAlone]_vars

\* ------------------------------------------------- reactions and comments
\* enum ReactionType
ReactionType == {"LIKE", "LOVE", "LAUGH", "SAD", "WOW", "ANGRY"}

\* req.body.type: two of the types, a string that is no type, and none
TypeInputs == {"LIKE", "LOVE", "HUG", ""}

\* req.body.voicePinId / req.params.voicePinId; 0 is an absent field
PinInputs == 0..MaxPins

\* prisma.voicePin.findUnique({ where: { id, deletedAt: null } })
findVoicePin(id) == {p \in voicePins : p.id = id /\ ~p.deletedAt}

\* mutant: the reaction is always created, never replaced
upsert_alwaysCreate(userId, voicePinId, type) ==
    reactions \cup {[userId |-> userId, voicePinId |-> voicePinId, type |-> type]}

\* prisma.reaction.upsert on the unique key (userId, voicePinId)
upsert(userId, voicePinId, type) ==
    {r \in reactions : ~(r.userId = userId /\ r.voicePinId = voicePinId)}
      \cup {[userId |-> userId, voicePinId |-> voicePinId, type |-> type]}

\* prisma.reaction.count({ where: { voicePinId } }) on the table R
reactionCount(R, voicePinId) == Cardinality({r \in R : r.voicePinId = voicePinId})

\* prisma.voicePin.update({ where: { id }, data: { reactionsCount: count } })
updateReactionsCount(voicePinId, count) ==
    {IF p.id = voicePinId THEN [p EXCEPT !.reactionsCount = count] ELSE p : p \in voicePins}

\* what the reaction handlers never write
reactionOthers == <<rows, nextId, users, notifications, alone, calls, started, comments>>

addReaction(userId, voicePinId, type) ==
    /\ UNCHANGED reactionOthers
    /\ IF voicePinId = 0 \/ type = ""
       THEN /\ Reply("addReaction", userId, voicePinId, type, 400,
                     "voicePinId and type are required", NoRow)
            /\ UNCHANGED <<reactions, voicePins>>
       ELSE IF type \notin ReactionType
       THEN /\ Reply("addReaction", userId, voicePinId, type, 400,
                     "Invalid reaction type", NoRow)
            /\ UNCHANGED <<reactions, voicePins>>
       ELSE IF findVoicePin(voicePinId) = {}
       THEN /\ Reply("addReaction", userId, voicePinId, type, 404,
                     "Voice pin not found", NoRow)
            /\ UNCHANGED <<reactions, voicePins>>
       ELSE /\ reactions' = upsert(userId, voicePinId, type)
            /\ voicePins' = updateReactionsCount(voicePinId,
                                                 reactionCount(reactions', voicePinId))
            /\ Reply("addReaction", userId, voicePinId, type, 200, "", NoRow)

\* prisma.reaction.findUnique on the unique key (userId, voicePinId)
findReaction(userId, voicePinId) ==
    {r \in reactions : r.userId = userId /\ r.voicePinId = voicePinId}

removeReaction(userId, voicePinId) ==
    /\ UNCHANGED reactionOthers
    /\ IF findReaction(userId, voicePinId) = {}
       THEN /\ Reply("removeReaction", userId, voicePinId, "", 404,
                     "Reaction not found", NoRow)
            /\ UNCHANGED <<reactions, voicePins>>
       ELSE /\ reactions' = reactions \ findReaction(userId, voicePinId)
            /\ voicePins' = updateReactionsCount(voicePinId,
                                                 reactionCount(reactions', voicePinId))
            /\ Reply("removeReaction", userId, voicePinId, "", 200,
                     "Reaction removed", NoRow)

\* The reaction routes, on pins that users create and soft-delete.
NextReaction ==
    \/ \E u \in Users : createVoicePin(u, "")
    \/ \E u \in Users, id \in 1..MaxPins : deleteVoicePin(u, id)
    \/ \E u \in Users, pin \in PinInputs, t \in TypeInputs : addReaction(u, pin, t)
    \/ \E u \in Users, pin \in PinInputs : removeReaction(u, pin)

SpecReaction == Init /\ [][NextReaction]_vars

\* table Comment
Comment == [id : 1..MaxComments, userId : Users, voicePinId : 1..MaxPins,
            parentId : 0..MaxComments, deletedAt : BOOLEAN]

\* mutant: the lookup forgets deletedAt
findComment_anyComment(id) == {c \in comments : c.id = id}

\* prisma.comment.findUnique({ where: { id, deletedAt: null } })
findComment(id) == {c \in comments : c.id = id /\ ~c.deletedAt}

\* prisma.voicePin.update({ where: { id }, data: { commentsCount: { increment: by } } })
incrementCommentsCount(voicePinId, by) ==
    {IF p.id = voicePinId THEN [p EXCEPT !.commentsCount = @ + by] ELSE p : p \in voicePins}

\* what the comment handlers never write
commentOthers == <<rows, nextId, users, notifications, alone, calls, started, reactions>>

\* content "" is an absent text, file an attached audio; parentId 0 is no parent
createComment(userId, content, file, voicePinId, parentId) ==
    /\ UNCHANGED commentOthers
    /\ IF content = "" /\ ~file
       THEN /\ Reply("createComment", userId, voicePinId, "", 400,
                     "Content or audio file is required", NoRow)
            /\ UNCHANGED <<comments, voicePins>>
       ELSE IF findVoicePin(voicePinId) = {}
       THEN /\ Reply("createComment", userId, voicePinId, "", 404,
                     "Voice pin not found", NoRow)
            /\ UNCHANGED <<comments, voicePins>>
       ELSE IF parentId # 0 /\ findComment(parentId) = {}
       THEN /\ Reply("createComment", userId, voicePinId, "", 404,
                     "Parent comment not found", NoRow)
            /\ UNCHANGED <<comments, voicePins>>
       ELSE /\ Cardinality(comments) < MaxComments
            /\ comments' = comments \cup
                 {[id |-> Cardinality(comments) + 1, userId |-> userId,
                   voicePinId |-> voicePinId, parentId |-> parentId,
                   deletedAt |-> FALSE]}
            /\ voicePins' = incrementCommentsCount(voicePinId, 1)
            /\ Reply("createComment", userId, voicePinId, "", 200, "", NoRow)

deleteComment(userId, id) ==
    /\ UNCHANGED commentOthers
    /\ IF findComment(id) = {}
       THEN /\ Reply("deleteComment", userId, id, "", 404, "Comment not found", NoRow)
            /\ UNCHANGED <<comments, voicePins>>
       ELSE \E comment \in findComment(id) :
              IF comment.userId # userId
              THEN /\ Reply("deleteComment", userId, id, "", 403,
                            "Not authorized to delete this comment", NoRow)
                   /\ UNCHANGED <<comments, voicePins>>
              ELSE /\ comments' = {IF c.id = id THEN [c EXCEPT !.deletedAt = TRUE] ELSE c :
                                     c \in comments}
                   /\ voicePins' = incrementCommentsCount(comment.voicePinId, -1)
                   /\ Reply("deleteComment", userId, id, "", 204, "", NoRow)

\* The comment routes, on pins that users create and soft-delete.
NextComment ==
    \/ \E u \in Users : createVoicePin(u, "")
    \/ \E u \in Users, id \in 1..MaxPins : deleteVoicePin(u, id)
    \/ \E u \in Users, c \in {"", "text"}, f \in BOOLEAN, pin \in 1..MaxPins,
          parent \in 0..MaxComments : createComment(u, c, f, pin, parent)
    \/ \E u \in Users, id \in 1..MaxComments : deleteComment(u, id)

SpecComment == Init /\ [][NextComment]_vars

\* ----------------------------------------------------- interleaved handlers
\* Each handler awaits its lookups and then its write: between the two another
\* call may run. A call begins with its reads and checks, which either answer
\* at once (code) or leave the row they found (seen) for the write that follows.
RaceUsers == {1, 2}

Begin(p, op, caller, arg, action, code, seen) ==
    /\ calls[p].pc \in {"idle", "done"}
    /\ started < MaxCalls
    /\ started' = started + 1
    /\ calls' = [calls EXCEPT ![p] =
                   [op |-> op, caller |-> caller, arg |-> arg, action |-> action,
                    pc |-> IF code = 0 THEN "write" ELSE "done",
                    seen |-> seen, count |-> 0, code |-> code]]
    /\ UNCHANGED <<rows, nextId, users, last, voicePins, notifications, alone,
                   reactions, comments>>

\* the awaited write and the response: res.json(...) or the catch block
Finish(p, w) ==
    /\ rows' = w.rows
    /\ calls' = [calls EXCEPT ![p].pc = "done", ![p].seen = NoRow,
                              ![p].code = IF w.ok THEN 200 ELSE 400]
    /\ UNCHANGED <<users, last, voicePins, notifications, alone, started,
                   reactions, comments>>

requestRead(p, senderId, receiverId) ==
    IF requestSelf(senderId, receiverId)
    THEN Begin(p, "request", senderId, receiverId, "", 400, NoRow)
    ELSE IF findActiveUser(receiverId) = {}
    THEN Begin(p, "request", senderId, receiverId, "", 404, NoRow)
    ELSE IF requestExisting(senderId, receiverId) # {}
    THEN \E existing \in requestExisting(senderId, receiverId) :
           IF requestRefusal(existing.status) # ""
           THEN Begin(p, "request", senderId, receiverId, "", 400, NoRow)
           ELSE Begin(p, "request", senderId, receiverId, "", 0, existing)
    ELSE Begin(p, "request", senderId, receiverId, "", 0, NoRow)

requestWrite(p) ==
    /\ calls[p].op = "request" /\ calls[p].pc = "write"
    /\ IF calls[p].seen = NoRow
       THEN /\ nextId <= MaxId
            /\ nextId' = nextId + 1
            /\ Finish(p, prismaCreate(calls[p].caller, calls[p].arg, "PENDING"))
       ELSE /\ UNCHANGED nextId
            /\ Finish(p, prismaUpdate(calls[p].seen.id, calls[p].caller, calls[p].arg,
                                      "PENDING"))

respondRead(p, receiverId, id, action) ==
    IF findUnique(id) = {}
    THEN Begin(p, "respond", receiverId, id, action, 404, NoRow)
    ELSE \E friendRequest \in findUnique(id) :
           IF ~respondAuthorized(friendRequest, receiverId)
           THEN Begin(p, "respond", receiverId, id, action, 403, NoRow)
           ELSE IF friendRequest.status # "PENDING" \/ respondStatus(action) = "NULL"
           THEN Begin(p, "respond", receiverId, id, action, 400, NoRow)
           ELSE Begin(p, "respond", receiverId, id, action, 0, friendRequest)

respondWrite(p) ==
    /\ calls[p].op = "respond" /\ calls[p].pc = "write"
    /\ UNCHANGED nextId
    /\ Finish(p, prismaUpdateStatus(calls[p].arg, respondStatus(calls[p].action)))

cancelRead(p, senderId, id) ==
    IF findUnique(id) = {}
    THEN Begin(p, "cancel", senderId, id, "", 404, NoRow)
    ELSE \E friendRequest \in findUnique(id) :
           IF ~cancelAuthorized(friendRequest, senderId)
           THEN Begin(p, "cancel", senderId, id, "", 403, NoRow)
           ELSE IF ~cancelPending(friendRequest)
           THEN Begin(p, "cancel", senderId, id, "", 400, NoRow)
           ELSE Begin(p, "cancel", senderId, id, "", 0, friendRequest)

cancelWrite(p) ==
    /\ calls[p].op = "cancel" /\ calls[p].pc = "write"
    /\ UNCHANGED nextId
    /\ Finish(p, prismaDelete(calls[p].arg))

blockRead(p, blockerId, userId) ==
    IF blockSelf(blockerId, userId)
    THEN Begin(p, "block", blockerId, userId, "", 400, NoRow)
    ELSE IF blockExisting(blockerId, userId) # {}
    THEN \E existing \in blockExisting(blockerId, userId) :
           Begin(p, "block", blockerId, userId, "", 0, existing)
    ELSE Begin(p, "block", blockerId, userId, "", 0, NoRow)

blockWrite(p) ==
    /\ calls[p].op = "block" /\ calls[p].pc = "write"
    /\ IF calls[p].seen = NoRow
       THEN /\ nextId <= MaxId
            /\ nextId' = nextId + 1
            /\ Finish(p, prismaCreate(calls[p].caller, calls[p].arg, "BLOCKED"))
       ELSE /\ UNCHANGED nextId
            /\ Finish(p, prismaUpdate(calls[p].seen.id, calls[p].caller, calls[p].arg,
                                      "BLOCKED"))

unblockRead(p, blockerId, userId) ==
    IF unblockExisting(blockerId, userId) = {}
    THEN Begin(p, "unblock", blockerId, userId, "", 404, NoRow)
    ELSE \E existing \in unblockExisting(blockerId, userId) :
           Begin(p, "unblock", blockerId, userId, "", 0, existing)

unblockWrite(p) ==
    /\ calls[p].op = "unblock" /\ calls[p].pc = "write"
    /\ UNCHANGED nextId
    /\ Finish(p, prismaDelete(calls[p].seen.id))

NextRace ==
    \/ \E p \in Procs, s \in RaceUsers, r \in RaceUsers : requestRead(p, s, r)
    \/ \E p \in Procs : requestWrite(p)
    \/ \E p \in Procs, u \in RaceUsers, id \in Ids, a \in {"accept", "reject"} :
         respondRead(p, u, id, a)
    \/ \E p \in Procs : respondWrite(p)
    \/ \E p \in Procs, u \in RaceUsers, id \in Ids : cancelRead(p, u, id)
    \/ \E p \in Procs : cancelWrite(p)
    \/ \E p \in Procs, u \in RaceUsers, o \in RaceUsers : blockRead(p, u, o)
    \/ \E p \in Procs : blockWrite(p)
    \/ \E p \in Procs, u \in RaceUsers, o \in RaceUsers : unblockRead(p, u, o)
    \/ \E p \in Procs : unblockWrite(p)

SpecRace == Init /\ [][NextRace]_vars

\* ------------------------------------------- interleaved reaction handlers
\* Each await of a reaction handler is a step of its own. Process p is the
\* connection of user p, so that two calls in flight are by different users.

\* validation and prisma.voicePin.findUnique: the call starts
addReactionFind(p, voicePinId, type) ==
    /\ p \in RaceUsers
    /\ Begin(p, "addReaction", p, voicePinId, type,
             IF voicePinId = 0 \/ type = "" \/ type \notin ReactionType THEN 400
             ELSE IF findVoicePin(voicePinId) = {} THEN 404 ELSE 0,
             NoRow)

\* await prisma.reaction.upsert
addReactionWrite(p) ==
    /\ calls[p].op = "addReaction" /\ calls[p].pc = "write"
    /\ reactions' = upsert(calls[p].caller, calls[p].arg, calls[p].action)
    /\ calls' = [calls EXCEPT ![p].pc = "count"]
    /\ UNCHANGED <<rows, nextId, users, last, voicePins, notifications, alone,
                   started, comments>>

\* await prisma.reaction.findUnique: the call starts
removeReactionFind(p, voicePinId) ==
    /\ p \in RaceUsers
    /\ Begin(p, "removeReaction", p, voicePinId, "",
             IF findReaction(p, voicePinId) = {} THEN 404 ELSE 0, NoRow)

\* await prisma.reaction.delete: a row that is gone throws and answers 400
removeReactionWrite(p) ==
    /\ calls[p].op = "removeReaction" /\ calls[p].pc = "write"
    /\ IF findReaction(calls[p].caller, calls[p].arg) = {}
       THEN /\ calls' = [calls EXCEPT ![p].pc = "done", ![p].code = 400]
            /\ UNCHANGED reactions
       ELSE /\ reactions' = reactions \ findReaction(calls[p].caller, calls[p].arg)
            /\ calls' = [calls EXCEPT ![p].pc = "count"]
    /\ UNCHANGED <<rows, nextId, users, last, voicePins, notifications, alone,
                   started, comments>>

\* const count = await prisma.reaction.count({ where: { voicePinId } })
reactionCountQuery(p) ==
    /\ calls[p].pc = "count"
    /\ calls' = [calls EXCEPT ![p].pc = "update",
                              ![p].count = reactionCount(reactions, calls[p].arg)]
    /\ UNCHANGED <<rows, nextId, users, last, voicePins, notifications, alone,
                   started, reactions, comments>>

\* await prisma.voicePin.update({ data: { reactionsCount: count } }); res.json
reactionsCountWrite(p) ==
    /\ calls[p].pc = "update"
    /\ voicePins' = updateReactionsCount(calls[p].arg, calls[p].count)
    /\ calls' = [calls EXCEPT ![p].pc = "done", ![p].code = 200]
    /\ UNCHANGED <<rows, nextId, users, last, notifications, alone, started,
                   reactions, comments>>

NextReactionRace ==
    \/ \E u \in Users : createVoicePin(u, "")
    \/ \E p \in Procs, pin \in PinInputs, t \in TypeInputs : addReactionFind(p, pin, t)
    \/ \E p \in Procs : addReactionWrite(p)
    \/ \E p \in Procs, pin \in PinInputs : removeReactionFind(p, pin)
    \/ \E p \in Procs : removeReactionWrite(p)
    \/ \E p \in Procs : reactionCountQuery(p)
    \/ \E p \in Procs : reactionsCountWrite(p)

SpecReactionRace == Init /\ [][NextReactionRace]_vars

\* ------------------------------------------------------------ properties
\* the rows of the unordered pair {a, b} in a table R
PairRows(R, a, b) == {r \in R : {r.senderId, r.receiverId} = {a, b}}

IsActive(u) == u \in Users /\ ~users[u].deletedAt /\ users[u].status = "ACTIVE"

Answer(status, id) == {[status |-> status, friendshipId |-> id]}

\* C1: in every reachable state there is at most one Friendship row for any
\* unordered pair of users; a row (A,B) and a row (B,A) count as the same pair.
C1_OneRowPerPair ==
    \A r1, r2 \in rows :
        {r1.senderId, r1.receiverId} = {r2.senderId, r2.receiverId} => r1 = r2

\* a request in the direction opposite to the stored row was turned away
C1_Witness ==
    /\ last.op = "request" /\ last.message = "Request already pending"
    /\ \E r \in rows : r.senderId = last.arg /\ r.receiverId = last.caller
    /\ Cardinality(rows) = 2

\* C2: no reachable row has senderId = receiverId; request and block aimed at
\* the caller answer 400 and leave the table as it was.
C2_NoSelfRelationship ==
    /\ [](\A r \in rows : r.senderId # r.receiverId)
    /\ [][(last'.op \in {"request", "block"} /\ last'.caller = last'.arg)
            => (last'.code = 400 /\ rows' = rows
                /\ last'.message = (IF last'.op = "request" THEN "Cannot friend yourself"
                                                            ELSE "Cannot block yourself"))]_vars

C2_Witness ==
    /\ last.op = "request" /\ last.caller = last.arg /\ last.code = 400
    /\ rows # {}

\* C3: A # B, B active, no row for the pair: request by A targeting B succeeds,
\* leaves exactly one row for the pair, {senderId: A, receiverId: B, PENDING},
\* and getStatus answers pending_sent to A and pending_received to B, both
\* with that row's id.
C3_RequestCreatesPending ==
    [][\A A \in Users, B \in UserIds :
        (/\ last'.op = "request" /\ last'.caller = A /\ last'.arg = B
         /\ A # B
         /\ IsActive(B)
         /\ PairRows(rows, A, B) = {})
        => LET new == [id |-> nextId, senderId |-> A, receiverId |-> B, status |-> "PENDING"]
           IN  /\ last'.code = 200
               /\ last'.data = new
               /\ rows' = rows \cup {new}
               /\ PairRows(rows', A, B) = {new}
               /\ getStatus(A, B)' = Answer("pending_sent", new.id)
               /\ getStatus(B, A)' = Answer("pending_received", new.id)]_vars

C3_Witness ==
    /\ last.op = "request" /\ last.code = 200
    /\ last.data.id = 2 /\ Cardinality(rows) = 2
    /\ getStatus(last.arg, last.caller) = Answer("pending_received", 2)

\* C4: while the pair's row is PENDING, ACCEPTED or BLOCKED a request between
\* the two users fails in either direction and changes no row; after a block
\* by A on B getStatus answers blocked_by_you to A and blocked to B.
C4_RequestRefusedOnLiveRow ==
    /\ [][(/\ last'.op = "request"
           /\ \E r \in PairRows(rows, last'.caller, last'.arg) :
                 r.status \in {"PENDING", "ACCEPTED", "BLOCKED"})
           => (last'.code # 200 /\ rows' = rows)]_vars
    /\ []((last.op = "block" /\ last.code = 200)
           => /\ getStatus(last.caller, last.arg) = Answer("blocked_by_you", last.data.id)
              /\ getStatus(last.arg, last.caller) = Answer("blocked", last.data.id))

\* the blocked user asked the blocker and was refused
C4_Witness ==
    /\ last.op = "request" /\ last.message = "Cannot send request"
    /\ \E r \in rows : /\ r.status = "BLOCKED"
                       /\ r.senderId = last.arg /\ r.receiverId = last.caller

\* C5 as stated: on a REJECTED row a request by either user X targeting the
\* other user Y succeeds and rewrites that row to {X, Y, PENDING}.
C5_Original ==
    [][(/\ last'.op = "request"
        /\ \E r \in PairRows(rows, last'.caller, last'.arg) : r.status = "REJECTED")
        => last'.code = 200]_vars

\* C5 amended: on a REJECTED row a request by either user X targeting the
\* other user Y, Y being an active user, succeeds, creates no row and rewrites
\* that same row (same id) to {senderId: X, receiverId: Y, PENDING}; getStatus
\* then answers pending_sent to X and pending_received to Y.
C5_Resurrection ==
    [][\A X \in Users, Y \in UserIds :
        (/\ last'.op = "request" /\ last'.caller = X /\ last'.arg = Y
         /\ IsActive(Y)
         /\ \E r \in PairRows(rows, X, Y) : r.status = "REJECTED")
        => \A r \in PairRows(rows, X, Y) :
             LET new == [id |-> r.id, senderId |-> X, receiverId |-> Y, status |-> "PENDING"]
             IN  /\ last'.code = 200
                 /\ last'.data = new
                 /\ rows' = (rows \ {r}) \cup {new}
                 /\ nextId' = nextId
                 /\ getStatus(X, Y)' = Answer("pending_sent", r.id)
                 /\ getStatus(Y, X)' = Answer("pending_received", r.id)]_vars

\* the user who rejected re-sent the request: the direction is reversed
C5_Witness ==
    /\ last.op = "request" /\ last.code = 200
    /\ last.data.id < nextId - 1
    /\ last.data.senderId = last.caller /\ last.data.receiverId = last.arg
    /\ Cardinality(rows) = 2

\* C6: respond by the stored receiver of a PENDING row sets its status to
\* ACCEPTED on accept and REJECTED on reject; id, senderId and receiverId stay
\* and no other row is created, changed or deleted.
C6_RespondSetsStatusOnly ==
    [][\A r \in rows :
        (/\ last'.op = "respond" /\ last'.arg = r.id /\ last'.caller = r.receiverId
         /\ r.status = "PENDING"
         /\ last'.action \in {"accept", "reject"})
        => LET new == [r EXCEPT !.status = IF last'.action = "accept" THEN "ACCEPTED"
                                                                      ELSE "REJECTED"]
           IN  /\ last'.code = 200
               /\ last'.data = new
               /\ rows' = (rows \ {r}) \cup {new}]_vars

C6_Witness ==
    /\ last.op = "respond" /\ last.code = 200 /\ last.action = "reject"
    /\ last.data.status = "REJECTED" /\ last.data.receiverId = last.caller
    /\ Cardinality(rows) = 2

\* C7: respond fails and writes nothing when, in this order, the id is unknown
\* (404), the caller is not the stored receiver (403), the row is not PENDING
\* (400 already handled), the action is neither accept nor reject (400); a row
\* becomes ACCEPTED or REJECTED only by a respond of its receiver on PENDING.
C7_RespondChecks ==
    /\ [][last'.op = "respond"
           => LET hit == {r \in rows : r.id = last'.arg}
              IN  /\ hit = {} => /\ last'.code = 404
                                 /\ last'.message = "Request not found"
                                 /\ rows' = rows
                  /\ \A r \in hit :
                       IF r.receiverId # last'.caller
                       THEN /\ last'.code = 403
                            /\ last'.message = "Not authorized to respond"
                            /\ rows' = rows
                       ELSE IF r.status # "PENDING"
                       THEN /\ last'.code = 400
                            /\ last'.message = "Request already handled"
                            /\ rows' = rows
                       ELSE IF last'.action \notin {"accept", "reject"}
                       THEN /\ last'.code = 400
                            /\ last'.message = "Invalid action. Use \"accept\" or \"reject\""
                            /\ rows' = rows
                       ELSE last'.code = 200]_vars
    /\ [][\A r2 \in rows' :
            (r2.status \in {"ACCEPTED", "REJECTED"} /\ r2 \notin rows)
            => /\ last'.op = "respond"
               /\ \E r \in rows : /\ r.id = r2.id /\ r.id = last'.arg
                                  /\ r.status = "PENDING"
                                  /\ r.receiverId = last'.caller
                                  /\ r2 = [r EXCEPT !.status = r2.status]]_vars

\* the sender tried to accept the request they sent
C7_Witness ==
    /\ last.op = "respond" /\ last.code = 403 /\ last.action = "accept"
    /\ \E r \in rows : r.id = last.arg /\ r.senderId = last.caller /\ r.status = "PENDING"

\* C8: for A # B, B is in list(A) iff the pair has an ACCEPTED row, in either
\* stored direction; so B in list(A) iff A in list(B) iff getStatus answers
\* friends both ways; and this holds right after an accepted request.
C8_FriendsSymmetric ==
    /\ \A A \in Users, B \in Users :
         A # B =>
           /\ (B \in list(A)) <=> (\E r \in PairRows(rows, A, B) : r.status = "ACCEPTED")
           /\ (B \in list(A)) <=> (A \in list(B))
           /\ (B \in list(A)) <=> (\E id \in Ids : /\ getStatus(A, B) = Answer("friends", id)
                                                  /\ getStatus(B, A) = Answer("friends", id))
    /\ (last.op = "respond" /\ last.code = 200 /\ last.action = "accept")
         => \E r \in rows : /\ r.id = last.arg
                            /\ r.receiverId = last.caller
                            /\ r.senderId \in list(r.receiverId)
                            /\ r.receiverId \in list(r.senderId)

C8_Witness ==
    /\ last.op = "respond" /\ last.code = 200 /\ last.action = "accept"
    /\ last.data.senderId \in list(last.caller)
    /\ last.caller \in list(last.data.senderId)
    /\ getStatus(last.caller, last.data.senderId) = Answer("friends", last.arg)

\* C9: cancel succeeds iff the id exists, the caller is the stored sender and
\* the row is PENDING; it then deletes the row (getStatus none both ways) and a
\* second cancel of the id answers 404; a non-sender gets 403 and a sender of a
\* row that is not PENDING gets 400, both with the row left as it was.
C9_Cancel ==
    /\ [][last'.op = "cancel"
           => LET hit == {r \in rows : r.id = last'.arg}
                  ok == \E r \in hit : r.senderId = last'.caller /\ r.status = "PENDING"
              IN  /\ (last'.code = 200) <=> ok
                  /\ ~ok => rows' = rows
                  /\ hit = {} => last'.code = 404
                  /\ \A r \in hit :
                       /\ r.senderId # last'.caller => last'.code = 403
                       /\ (r.senderId = last'.caller /\ r.status # "PENDING")
                            => /\ last'.code = 400
                               /\ last'.message = "Only pending requests can be cancelled"
                       /\ ok => /\ rows' = rows \ {r}
                                /\ getStatus(r.senderId, r.receiverId)' = Answer("none", 0)
                                /\ getStatus(r.receiverId, r.senderId)' = Answer("none", 0)]_vars
    /\ [][(last.op = "cancel" /\ last.code = 200 /\ last'.op = "cancel" /\ last'.arg = last.arg)
           => last'.code = 404]_vars
    /\ [][\A id \in Ids : (id < nextId /\ findUnique(id) = {}) => findUnique(id)' = {}]_vars

C9_Witness ==
    /\ last.op = "cancel" /\ last.code = 200
    /\ findUnique(last.arg) = {}
    /\ Cardinality(rows) = 1

\* C10: remove by either member of a pair whose row is ACCEPTED deletes that
\* row and the pair is back to none; with no row, or a PENDING, REJECTED or
\* BLOCKED row, remove answers 404 and the table is unchanged.
C10_Remove ==
    [][\A u \in Users, o \in UserIds :
        (last'.op = "remove" /\ last'.caller = u /\ last'.arg = o)
        => LET acc == {r \in PairRows(rows, u, o) : r.status = "ACCEPTED"}
           IN  IF acc # {}
               THEN /\ last'.code = 200
                    /\ rows' = rows \ acc
                    /\ PairRows(rows', u, o) = {}
                    /\ getStatus(u, o)' = Answer("none", 0)
                    /\ getStatus(o, u)' = Answer("none", 0)
               ELSE /\ last'.code = 404
                    /\ last'.message = "Friendship not found"
                    /\ rows' = rows]_vars

C10_Witness ==
    /\ last.op = "remove" /\ last.code = 200
    /\ getStatus(last.caller, last.arg) = Answer("none", 0)
    /\ Cardinality(rows) = 1

\* C11: a successful block by A on B leaves exactly one row for the pair,
\* {senderId: A, receiverId: B, BLOCKED}: the pair's row, whatever its status
\* and direction, is overwritten under its id, else a row is created; a row
\* becomes BLOCKED, or a BLOCKED row changes, by a successful block only, so
\* the sender of a BLOCKED row is the latest successful blocker of the pair.
C11_BlockOverwrites ==
    /\ [][\A A \in Users, B \in UserIds :
           (last'.op = "block" /\ last'.caller = A /\ last'.arg = B)
           => /\ (A # B /\ B \in Users) => last'.code = 200
              /\ last'.code = 200 =>
                   /\ A # B
                   /\ LET old == PairRows(rows, A, B)
                          id == IF old = {} THEN nextId ELSE (CHOOSE r \in old : TRUE).id
                          new == [id |-> id, senderId |-> A, receiverId |-> B,
                                  status |-> "BLOCKED"]
                      IN  /\ Cardinality(old) <= 1
                          /\ rows' = (rows \ old) \cup {new}
                          /\ last'.data = new
                          /\ PairRows(rows', A, B) = {new}]_vars
    /\ [][\A r2 \in rows' :
            (r2.status = "BLOCKED" /\ r2 \notin rows)
            => /\ last'.op = "block" /\ last'.code = 200
               /\ r2.senderId = last'.caller /\ r2.receiverId = last'.arg]_vars

\* a block written over the older row of the pair
C11_Witness ==
    /\ last.op = "block" /\ last.code = 200
    /\ last.data.id < nextId - 1
    /\ last.data.senderId = last.caller /\ last.data.receiverId = last.arg
    /\ Cardinality(rows) = 2

\* C12: unblock by X on Y succeeds iff a row {senderId: X, receiverId: Y,
\* BLOCKED} exists and then deletes it (the pair is back to none); by the
\* blocked party, on a PENDING, ACCEPTED or REJECTED row or on no row it
\* answers 404 and the table is unchanged.
C12_Unblock ==
    [][\A X \in Users, Y \in UserIds :
        (last'.op = "unblock" /\ last'.caller = X /\ last'.arg = Y)
        => LET hit == {r \in rows : /\ r.senderId = X /\ r.receiverId = Y
                                    /\ r.status = "BLOCKED"}
           IN  IF hit # {}
               THEN /\ last'.code = 200
                    /\ rows' = rows \ hit
                    /\ PairRows(rows', X, Y) = {}
                    /\ getStatus(X, Y)' = Answer("none", 0)
                    /\ getStatus(Y, X)' = Answer("none", 0)
               ELSE /\ last'.code = 404
                    /\ last'.message = "Block relationship not found"
                    /\ rows' = rows]_vars

\* the blocked party asked for the unblock and was refused
C12_Witness ==
    /\ last.op = "unblock" /\ last.code = 404
    /\ \E r \in rows : /\ r.status = "BLOCKED"
                       /\ r.senderId = last.arg /\ r.receiverId = last.caller

\* C13: once a block by A on B has succeeded and while A calls nothing (so A
\* has not unblocked B), no sequence of calls by B alone leads to a PENDING
\* row for the pair or to a successful request by B on A.
C13_BlockedCannotRequest ==
    alone # <<>> =>
        /\ \A r \in PairRows(rows, alone[1], alone[2]) : r.status # "PENDING"
        /\ ~(/\ last.op = "request" /\ last.code = 200
             /\ last.caller = alone[2] /\ last.arg = alone[1])

\* C14: while the pair's row is BLOCKED with sender A and receiver B, no pin
\* owned by A is in a listing called by or for B: getPublicVoicePin,
\* getPublicVoicePinByUser with A's id, getFriendsVisibleVoicePins for B.
C14_BlockedCannotSee ==
    \A r \in rows :
        r.status = "BLOCKED" =>
            \A p \in getPublicVoicePin \cup getPublicVoicePinByUser(r.senderId)
                     \cup getFriendsVisibleVoicePins(r.receiverId) :
                p.userId # r.senderId

\* C15: a successful request adds exactly one FRIEND_REQUEST notification for
\* the receiver, a successful respond accept exactly one FRIEND_ACCEPTED
\* notification for the row's sender, and every other call adds none.
C15_Notifications ==
    [][IF last'.op = "request" /\ last'.code = 200
       THEN notifications' = createNotification(last'.arg, "FRIEND_REQUEST")
       ELSE IF last'.op = "respond" /\ last'.code = 200 /\ last'.action = "accept"
       THEN notifications' = createNotification(last'.data.senderId, "FRIEND_ACCEPTED")
       ELSE notifications' = notifications]_vars

\* C16: a call of request, respond, cancel, remove, block or unblock that
\* reports a failure leaves the set of rows as it was; a successful call
\* changes at most the one row of the pair it acts on (the caller and the
\* target, or the two users of the row named by id).
C16_NoPartialWrites ==
    [][\A A \in Users, B \in UserIds \cup Ids :
        (/\ last'.op \in {"request", "respond", "cancel", "remove", "block", "unblock"}
         /\ last'.caller = A /\ last'.arg = B)
        => IF last'.code # 200
           THEN rows' = rows
           ELSE LET byId == last'.op \in {"respond", "cancel"}
                    acted == IF byId
                             THEN {r \in rows \cup rows' : r.id = B}
                             ELSE PairRows(rows \cup rows', A, B)
                IN  /\ rows \ acted = rows' \ acted
                    /\ Cardinality(rows \ rows') <= 1
                    /\ Cardinality(rows' \ rows) <= 1
                    /\ \A r \in acted, q \in acted :
                         {r.senderId, r.receiverId} = {q.senderId, q.receiverId}]_vars

\* a refused call and an untouched row of another pair
C16_Witness ==
    /\ last.op \in {"request", "respond", "cancel", "remove", "block", "unblock"}
    /\ last.code \in {400, 403, 404}
    /\ Cardinality(rows) = 2
    /\ \E r \in rows : r.status = "ACCEPTED"

FailureKind(code) ==
    CASE code = 400 -> "BadRequest"
      [] code = 403 -> "Forbidden"
      [] code = 404 -> "NotFound"
      [] code = 409 -> "Conflict"
      [] OTHER      -> "Internal"

\* the row a handler taking a request id looks at
RowOf(id) == IF findUnique(id) = {} THEN NoRow ELSE CHOOSE r \in findUnique(id) : TRUE

\* the status of the pair's row, "NULL" without a row
PairStatus(a, b) ==
    IF PairRows(rows, a, b) = {} THEN "NULL"
    ELSE (CHOOSE r \in PairRows(rows, a, b) : TRUE).status

C19_GetStatus ==
    /\ \A A \in Users, B \in UserIds :
         LET pair == PairRows(rows, A, B)
         IN  /\ Cardinality(getStatus(A, B)) = 1
             /\ A = B => getStatus(A, B) = Answer("self", 0)
             /\ (A # B /\ pair = {}) => getStatus(A, B) = Answer("none", 0)
             /\ A # B =>
                  \A s \in getStatus(A, B) : (s.friendshipId # 0) <=> (pair # {})
             /\ A # B =>
                  \A r \in pair :
                    getStatus(A, B) = Answer(
                      CASE r.status = "ACCEPTED" -> "friends"
                        [] r.status = "REJECTED" -> "rejected"
                        [] r.status = "PENDING" /\ r.senderId = A -> "pending_sent"
                        [] r.status = "PENDING" /\ r.receiverId = A -> "pending_received"
                        [] r.status = "BLOCKED" /\ r.senderId = A -> "blocked_by_you"
                        [] r.status = "BLOCKED" /\ r.receiverId = A -> "blocked",
                      r.id)
    /\ \A A \in Users, B \in Users :
         A # B =>
           \A s \in getStatus(A, B), t \in getStatus(B, A) :
             /\ s.friendshipId = t.friendshipId
             /\ (s.status = "pending_sent") <=> (t.status = "pending_received")
             /\ (s.status = "blocked_by_you") <=> (t.status = "blocked")
             /\ \A same \in {"friends", "rejected", "none"} :
                  (s.status = same) <=> (t.status = same)

\* one pair blocked and another pending, seen from both sides
C19_Witness ==
    \E A \in Users, B \in Users, C \in Users :
        /\ \E s \in getStatus(A, B) : s.status = "blocked_by_you" /\ s.friendshipId # 0
        /\ \E s \in getStatus(B, A) : s.status = "blocked"
        /\ \E s \in getStatus(A, C) : s.status = "pending_received"
        /\ \E s \in getStatus(C, A) : s.status = "pending_sent"

\* C20: for every user U the received and sent lists of pending are disjoint
\* and together are the PENDING rows that involve U: received the PENDING
\* rows with receiver U, sent those with sender U; no ACCEPTED, REJECTED or
\* BLOCKED row is in either; a row is in U's sent list with receiver V iff it
\* is in V's received list with sender U.
C20_PendingLists ==
    /\ \A U \in Users :
         /\ pendingReceived(U) \cap pendingSent(U) = {}
         /\ pendingReceived(U) \cup pendingSent(U) =
              {r \in rows : r.status = "PENDING" /\ U \in {r.senderId, r.receiverId}}
         /\ pendingReceived(U) = {r \in rows : r.status = "PENDING" /\ r.receiverId = U}
         /\ pendingSent(U) = {r \in rows : r.status = "PENDING" /\ r.senderId = U}
         /\ \A r \in rows :
              r.status \in {"ACCEPTED", "REJECTED", "BLOCKED"}
              => r \notin pendingReceived(U) \cup pendingSent(U)
    /\ \A U \in Users, V \in Users, r \in rows :
         (r \in pendingSent(U) /\ r.receiverId = V)
         <=> (r \in pendingReceived(V) /\ r.senderId = U)

\* a user with one request received and another sent, next to none
C20_Witness ==
    \E U \in Users :
        /\ pendingReceived(U) # {} /\ pendingSent(U) # {}
        /\ Cardinality(rows) = 2

\* C21: for users A # B, B is in getBlockedUsers of A iff a row {senderId: A,
\* receiverId: B, BLOCKED} exists, iff getStatus by A about B answers
\* blocked_by_you; the receiver of a block does not find the blocker in its
\* own blocked list.
C21_BlockedList ==
    \A A \in Users, B \in Users :
        A # B =>
          LET mine == {r \in rows : /\ r.senderId = A /\ r.receiverId = B
                                    /\ r.status = "BLOCKED"}
          IN  /\ (B \in getBlockedUsers(A)) <=> (mine # {})
              /\ (B \in getBlockedUsers(A))
                   <=> (\E s \in getStatus(A, B) : s.status = "blocked_by_you")
              /\ (mine # {}) => (A \notin getBlockedUsers(B))

\* a block listed for the blocker, and the blocked user with an empty list
C21_Witness ==
    \E A \in Users, B \in Users :
        /\ B \in getBlockedUsers(A)
        /\ getBlockedUsers(B) = {}
        /\ \E s \in getStatus(B, A) : s.status = "blocked"

\* a request of process p that found no row and waits for its create
CreatePending(p) ==
    calls[p].op = "request" /\ calls[p].pc = "write" /\ calls[p].seen = NoRow

\* C22: with the lookup and the create as separate steps, a request by A on B
\* and one by B on A that both found no row both succeed and leave the rows
\* (A,B) and (B,A): the unique index on (senderId, receiverId) refuses a
\* create only when a row of the same direction exists.
C22_SwappedRace ==
    /\ [][\A p \in Procs :
            (CreatePending(p) /\ calls'[p].pc = "done")
            => LET A == calls[p].caller
                   B == calls[p].arg
                   new == [id |-> nextId, senderId |-> A, receiverId |-> B,
                           status |-> "PENDING"]
               IN  IF \E x \in rows : x.senderId = A /\ x.receiverId = B
                   THEN calls'[p].code = 400 /\ rows' = rows
                   ELSE calls'[p].code = 200 /\ rows' = rows \cup {new}]_vars
    /\ [](\A p \in Procs, q \in Procs :
            (/\ started = 2 /\ p # q
             /\ calls[p].op = "request" /\ calls[q].op = "request"
             /\ calls[p].caller = calls[q].arg /\ calls[p].arg = calls[q].caller
             /\ calls[p].code = 200 /\ calls[q].code = 200)
            => /\ Cardinality(PairRows(rows, calls[p].caller, calls[p].arg)) = 2
               /\ \A r \in rows : r.status = "PENDING")

\* both swapped requests answered 200 and the pair has two rows
C22_Witness ==
    /\ calls[1].op = "request" /\ calls[2].op = "request"
    /\ calls[1].code = 200 /\ calls[2].code = 200
    /\ calls[1].caller = calls[2].arg /\ calls[1].arg = calls[2].caller
    /\ Cardinality(PairRows(rows, calls[1].caller, calls[1].arg)) = 2

\* C27: two requests by A on B that interleave never leave two rows (A,B):
\* the unique index makes the second create fail. When the two calls are all
\* that ran from the empty table, one PENDING row exists afterwards, one
\* caller got 200 and the other an error.
C27_SameDirectionRace ==
    /\ \A A \in Users, B \in Users :
         Cardinality({r \in rows : r.senderId = A /\ r.receiverId = B}) <= 1
    /\ \A p \in Procs, q \in Procs :
         (/\ started = 2 /\ p # q
          /\ calls[p].op = "request" /\ calls[q].op = "request"
          /\ calls[p].caller = calls[q].caller /\ calls[p].arg = calls[q].arg
          /\ calls[p].caller # calls[p].arg
          /\ calls[p].pc = "done" /\ calls[q].pc = "done")
         => /\ {calls[p].code, calls[q].code} = {200, 400}
            /\ \E id \in Ids :
                 rows = {[id |-> id, senderId |-> calls[p].caller,
                          receiverId |-> calls[p].arg, status |-> "PENDING"]}

\* both calls reached their create (two ids drawn), one row was written
C27_Witness ==
    /\ started = 2 /\ nextId = 3 /\ Cardinality(rows) = 1
    /\ calls[1].op = "request" /\ calls[2].op = "request"
    /\ calls[1].caller = calls[2].caller /\ calls[1].arg = calls[2].arg
    /\ calls[1].pc = "done" /\ calls[2].pc = "done"
    /\ calls[1].code = 400 /\ calls[2].code = 200

\* C28: a row written as BLOCKED stays BLOCKED with its sender until the write
\* of an unblock or of another block completes, whatever a respond in flight
\* had read before.
C28_BlockNotLost ==
    [][\A r \in rows :
        r.status = "BLOCKED"
        => \/ r \in rows'
           \/ \E p \in Procs : /\ calls[p].op \in {"block", "unblock"}
                               /\ calls[p].pc = "write"
                               /\ calls'[p].pc = "done"]_vars

\* C29: a cancel by the sender and a respond accept by the receiver on the
\* same request never both answer 200: either the row is deleted and the
\* respond failed, or it is ACCEPTED and the cancel failed.
C29_CancelRespondRace ==
    \A p \in Procs, q \in Procs :
        (/\ calls[p].op = "cancel" /\ calls[q].op = "respond"
         /\ calls[q].action = "accept" /\ calls[p].arg = calls[q].arg
         /\ calls[p].pc = "done" /\ calls[q].pc = "done")
        => /\ ~(calls[p].code = 200 /\ calls[q].code = 200)
           /\ calls[p].code = 200 => findUnique(calls[p].arg) = {}
           /\ calls[q].code = 200 =>
                \E r \in findUnique(calls[q].arg) : r.status = "ACCEPTED"

\* C23 (a pair has at most one row, so the status of the pair is that of its
\* row, none without a row): a row is deleted only by cancel while PENDING, by
\* remove while ACCEPTED and by unblock while BLOCKED, and the status changes
\* only along: none -> PENDING (request) or BLOCKED (block); PENDING ->
\* ACCEPTED or REJECTED (respond) or none (cancel); ACCEPTED -> none (remove);
\* REJECTED -> PENDING (request); any -> BLOCKED (block); BLOCKED -> none
\* (unblock).
C23_Lifecycle ==
    /\ [][\A r \in rows :
            (\A x \in rows' : x.id # r.id)
            => /\ last'.code = 200
               /\ \/ r.status = "PENDING" /\ last'.op = "cancel"
                  \/ r.status = "ACCEPTED" /\ last'.op = "remove"
                  \/ r.status = "BLOCKED" /\ last'.op = "unblock"]_vars
    /\ [][\A r \in rows, x \in rows' :
            (x.id = r.id /\ x # r)
            => /\ last'.code = 200
               /\ {x.senderId, x.receiverId} = {r.senderId, r.receiverId}
               /\ \/ x.status = "BLOCKED" /\ last'.op = "block"
                  \/ /\ r.status = "PENDING" /\ x.status \in {"ACCEPTED", "REJECTED"}
                     /\ last'.op = "respond"
                  \/ r.status = "REJECTED" /\ x.status = "PENDING" /\ last'.op = "request"]_vars
    /\ [][\A x \in rows' :
            (\A r \in rows : r.id # x.id)
            => /\ last'.code = 200
               /\ PairRows(rows, x.senderId, x.receiverId) = {}
               /\ \/ x.status = "PENDING" /\ last'.op = "request"
                  \/ x.status = "BLOCKED" /\ last'.op = "block"]_vars

\* a friendship that was requested, accepted and removed
C23_Witness ==
    /\ last.op = "remove" /\ last.code = 200
    /\ rows = {} /\ nextId = 2

\* C24: once deactivateAccount has succeeded for U, every later call by U of
\* a route behind authenticate is answered 401: U no longer sends, answers or
\* cancels friend requests nor blocks anyone.
C24_DeactivatedLockedOut ==
    [][\A U \in Users :
        (/\ users[U].deletedAt /\ users[U].status = "DEACTIVATED"
         /\ last'.caller = U
         /\ last'.op \in {"request", "respond", "cancel", "remove", "block", "unblock"})
        => (last'.code = 401 /\ rows' = rows)]_vars

\* C25: a user has at most one reaction per pin and, with the handlers served
\* one at a time, every pin's reactionsCount is the number of its reaction
\* rows; addReaction by a user who already reacted replaces the type and
\* leaves the count; a failed addReaction or removeReaction changes neither
\* the reactions nor the count.
C25_ReactionsCount ==
    /\ [](\A pin \in voicePins :
            /\ pin.reactionsCount = reactionCount(reactions, pin.id)
            /\ \A u \in Users : Cardinality(findReaction(u, pin.id)) <= 1)
    /\ [][(last' # last /\ last'.op \in {"addReaction", "removeReaction"})
          => /\ last'.code # 200 => (reactions' = reactions /\ voicePins' = voicePins)
             /\ \A U \in Users, P \in 1..MaxPins :
                  (/\ last'.op = "addReaction" /\ last'.code = 200
                   /\ last'.caller = U /\ last'.arg = P
                   /\ findReaction(U, P) # {})
                  => /\ reactions' = (reactions \ findReaction(U, P)) \cup
                          {[userId |-> U, voicePinId |-> P, type |-> last'.action]}
                     /\ voicePins' = voicePins]_vars

\* a pin counted two reactions, the last one just added
C25_Witness ==
    /\ last.op = "addReaction" /\ last.code = 200
    /\ \E pin \in voicePins : pin.reactionsCount = 2 /\ pin.id = last.arg
    /\ \E r \in reactions : r.type = "LOVE"

\* the comments of a pin, replies included, that are not deleted
LiveComments(C, voicePinId) == {c \in C : c.voicePinId = voicePinId /\ ~c.deletedAt}

\* C26: with the handlers served one at a time, a pin's commentsCount is the
\* number of its comments, replies included, whose deletedAt is null, and is
\* never negative; a successful createComment adds one, a successful
\* deleteComment subtracts one, and deleting a deleted comment or the comment
\* of another user fails and leaves the count.
C26_CommentsCount ==
    /\ [](\A pin \in voicePins :
            /\ pin.commentsCount = Cardinality(LiveComments(comments, pin.id))
            /\ pin.commentsCount >= 0)
    /\ [][\A U \in Users, N \in 1..MaxComments :
            (last' # last /\ last'.caller = U /\ last'.arg = N)
            => /\ (last'.op = "createComment" /\ last'.code = 200)
                    => \A pin \in voicePins : \A pin2 \in voicePins' :
                         (pin.id = N /\ pin2.id = N)
                         => pin2.commentsCount = pin.commentsCount + 1
               /\ (last'.op = "deleteComment" /\ last'.code = 204)
                    => \E c \in findComment(N) :
                         \A pin \in voicePins : \A pin2 \in voicePins' :
                           (pin.id = c.voicePinId /\ pin2.id = c.voicePinId)
                           => pin2.commentsCount = pin.commentsCount - 1
               /\ (/\ last'.op = "deleteComment"
                   /\ \E c \in comments : c.id = N /\ (c.deletedAt \/ c.userId # U))
                    => /\ last'.code \in {403, 404}
                       /\ comments' = comments /\ voicePins' = voicePins]_vars

\* a comment and its reply were written and one of them deleted
C26_Witness ==
    /\ last.op = "deleteComment" /\ last.code = 204
    /\ \E c \in comments : c.parentId # 0
    /\ \E c \in comments : c.deletedAt
    /\ \E pin \in voicePins : pin.commentsCount = 1

\* C30: with the reaction write, the count query and the reactionsCount write
\* of concurrent addReaction and removeReaction calls by different users as
\* separate steps, once every call has completed each pin's reactionsCount is
\* the number of reaction rows of that pin.
C30_ReactionRace ==
    (\A p \in Procs : calls[p].pc \in {"idle", "done"})
    => \A pin \in voicePins : pin.reactionsCount = reactionCount(reactions, pin.id)

====
